---- MODULE Spec2Model ----
(***************************************************************************)
(* Model of goldEli/make_video: the caption wrapping / paging / timing     *)
(* engine and the zoompan keyframe generator of make_video_ffmpeg.py, and  *)
(* the per-slide orchestration of make_video_ffmpeg.py and make_video.py.  *)
(*                                                                         *)
(* Python floats are IEEE-754 binary64. The timing code divides, multiplies*)
(* adds and subtracts them and then truncates, so its results depend on    *)
(* the rounding of every operation. Floats are therefore modelled bit for  *)
(* bit: a float is [neg, m, e] with value (-1)^neg * m * 2^e, where m is a *)
(* natural number of exactly 53 bits (or zero), held as little-endian      *)
(* limbs in base 2^15, and every operation rounds to nearest, ties to even.*)
(***************************************************************************)
EXTENDS Integers, Sequences, FiniteSets, TLC

----------------------------------------------------------------------------
(* Natural numbers of arbitrary size: little-endian limbs, no leading zero. *)

Base == 2^15

\* significand width of a Python float
MantBits == 53

RECURSIVE Pow2(_)
Pow2(n) == IF n = 0 THEN 1 ELSE 2 * Pow2(n - 1)

RECURSIVE NatBitLen(_)
NatBitLen(n) == IF n = 0 THEN 0 ELSE 1 + NatBitLen(n \div 2)

LimbBits == NatBitLen(Base) - 1

RECURSIVE BigNorm(_)
BigNorm(a) ==
    IF a = <<>> THEN <<>>
    ELSE IF a[Len(a)] = 0 THEN BigNorm(SubSeq(a, 1, Len(a) - 1))
    ELSE a

RECURSIVE BigOfNat(_)
BigOfNat(n) == IF n = 0 THEN <<>> ELSE <<n % Base>> \o BigOfNat(n \div Base)

RECURSIVE BigToNat(_)
BigToNat(a) == IF a = <<>> THEN 0 ELSE Head(a) + Base * BigToNat(Tail(a))

RECURSIVE BigAddC(_, _, _)
BigAddC(a, b, c) ==
    IF a = <<>> /\ b = <<>> THEN (IF c = 0 THEN <<>> ELSE <<c>>)
    ELSE LET x == (IF a = <<>> THEN 0 ELSE Head(a))
                  + (IF b = <<>> THEN 0 ELSE Head(b)) + c
         IN  <<x % Base>> \o BigAddC(IF a = <<>> THEN <<>> ELSE Tail(a),
                                      IF b = <<>> THEN <<>> ELSE Tail(b),
                                      x \div Base)

BigAdd(a, b) == BigAddC(a, b, 0)

RECURSIVE BigSubB(_, _, _)
BigSubB(a, b, c) ==
    IF a = <<>> THEN <<>>
    ELSE LET x == Head(a) - (IF b = <<>> THEN 0 ELSE Head(b)) - c
         IN  <<x % Base>> \o BigSubB(Tail(a),
                                      IF b = <<>> THEN <<>> ELSE Tail(b),
                                      IF x < 0 THEN 1 ELSE 0)

\* a - b for a >= b
BigSub(a, b) == BigNorm(BigSubB(a, b, 0))

RECURSIVE BigCmpTop(_, _, _)
BigCmpTop(a, b, i) ==
    IF i = 0 THEN 0
    ELSE IF a[i] > b[i] THEN 1
    ELSE IF a[i] < b[i] THEN -1
    ELSE BigCmpTop(a, b, i - 1)

\* -1, 0 or 1 as a < b, a = b, a > b
BigCmp(a, b) ==
    IF Len(a) > Len(b) THEN 1
    ELSE IF Len(a) < Len(b) THEN -1
    ELSE BigCmpTop(a, b, Len(a))

RECURSIVE BigMulSmallC(_, _, _)
BigMulSmallC(a, k, c) ==
    IF a = <<>> THEN (IF c = 0 THEN <<>> ELSE <<c>>)
    ELSE LET x == Head(a) * k + c
         IN  <<x % Base>> \o BigMulSmallC(Tail(a), k, x \div Base)

\* a * k for 0 <= k < Base
BigMulSmall(a, k) == IF k = 0 THEN <<>> ELSE BigMulSmallC(a, k, 0)

RECURSIVE BigMul(_, _)
BigMul(a, b) ==
    IF a = <<>> \/ b = <<>> THEN <<>>
    ELSE BigAdd(BigMulSmall(a, Head(b)),
                LET r == BigMul(a, Tail(b)) IN IF r = <<>> THEN <<>> ELSE <<0>> \o r)

RECURSIVE BigDivSmallR(_, _, _)
\* quotient limbs (little-endian) of a / k, scanning from the top limb
BigDivSmallR(a, k, r) ==
    IF a = <<>> THEN <<>>
    ELSE LET x == r * Base + a[Len(a)]
         IN  BigDivSmallR(SubSeq(a, 1, Len(a) - 1), k, x % k) \o <<x \div k>>

\* floor(a / k) for 0 < k <= Base
BigDivSmall(a, k) == BigNorm(BigDivSmallR(a, k, 0))

RECURSIVE BigModSmallR(_, _, _)
BigModSmallR(a, k, r) ==
    IF a = <<>> THEN r
    ELSE BigModSmallR(SubSeq(a, 1, Len(a) - 1), k, (r * Base + a[Len(a)]) % k)

BigModSmall(a, k) == BigModSmallR(a, k, 0)

RECURSIVE Zeros(_)
Zeros(n) == IF n = 0 THEN <<>> ELSE <<0>> \o Zeros(n - 1)

\* a * 2^n
BigShl(a, n) ==
    IF a = <<>> THEN <<>>
    ELSE Zeros(n \div LimbBits) \o BigMulSmall(a, Pow2(n % LimbBits))

\* floor(a / 2^n)
BigShr(a, n) ==
    IF n \div LimbBits >= Len(a) THEN <<>>
    ELSE BigDivSmall(SubSeq(a, n \div LimbBits + 1, Len(a)), Pow2(n % LimbBits))

BigBitLen(a) ==
    IF a = <<>> THEN 0 ELSE LimbBits * (Len(a) - 1) + NatBitLen(a[Len(a)])

BigIsOdd(a) == a # <<>> /\ a[1] % 2 = 1

RECURSIVE BigDivFix(_, _, _)
\* the largest q' <= q with q' * d <= r
BigDivFix(r, d, q) ==
    IF BigCmp(BigMulSmall(d, q), r) > 0 THEN BigDivFix(r, d, q - 1) ELSE q

\* floor(r / d) for r < d * Base: estimated from the top limbs, then fixed
BigDivDigit(r, d) ==
    LET n   == Len(d)
        hi  == IF Len(r) > n THEN r[n + 1] ELSE 0
        lo  == IF Len(r) >= n THEN r[n] ELSE 0
        est == (hi * Base + lo) \div d[n]
    IN  BigDivFix(r, d, IF est > Base - 1 THEN Base - 1 ELSE est)

RECURSIVE BigLongDiv(_, _, _, _)
\* long division in base Base: n holds the limbs of the dividend not yet
\* brought down, q the quotient limbs so far, r the remainder so far
BigLongDiv(n, d, q, r) ==
    IF Len(q) >= 0 /\ Len(r) >= 0 /\ n = <<>> THEN <<BigNorm(q), r>>
    ELSE LET r1 == BigNorm(<<n[Len(n)]>> \o r)
             dg == BigDivDigit(r1, d)
         IN  BigLongDiv(SubSeq(n, 1, Len(n) - 1), d, <<dg>> \o q,
                        BigSub(r1, BigMulSmall(d, dg)))

\* <<floor(n / d), n mod d * 2^s>> for d > 0, s the shift that fills d's top limb
BigDivMod(n, d) ==
    LET s == LimbBits - NatBitLen(d[Len(d)])
    IN  BigLongDiv(BigShl(n, s), BigShl(d, s), <<>>, <<>>)

----------------------------------------------------------------------------
(* binary64 values and their correctly rounded operations.                  *)

FZero == [neg |-> FALSE, m |-> <<>>, e |-> 0]

\* the exact value (-1)^neg * m * 2^e rounded to 53 bits, ties to even
FRound(neg, m, e) ==
    LET L == BigBitLen(m) IN
    IF m = <<>> THEN FZero
    ELSE IF L <= MantBits
    THEN [neg |-> neg, m |-> BigShl(m, MantBits - L), e |-> e - (MantBits - L)]
    ELSE LET sh   == L - MantBits
             q    == BigShr(m, sh)
             r    == BigSub(m, BigShl(q, sh))
             half == BigShl(<<1>>, sh - 1)
             c    == BigCmp(r, half)
             up   == c > 0 \/ (c = 0 /\ BigIsOdd(q))
             q1   == IF up THEN BigAdd(q, <<1>>) ELSE q
         IN  IF BigBitLen(q1) > MantBits
             THEN [neg |-> neg, m |-> BigShr(q1, 1), e |-> e + sh + 1]
             ELSE [neg |-> neg, m |-> q1, e |-> e + sh]

\* float(n) for an integer n
FOfInt(n) == FRound(n < 0, BigOfNat(IF n < 0 THEN -n ELSE n), 0)

\* Python's int / int (true division, correctly rounded), b > 0
FDivInt(a, b) ==
    LET n  == BigShl(BigOfNat(IF a < 0 THEN -a ELSE a), 5 * LimbBits)
        q  == BigDivSmall(n, b)
        st == IF BigModSmall(n, b) = 0 THEN 0 ELSE 1
    IN  FRound(a < 0, BigAdd(BigMulSmall(q, 2), BigOfNat(st)), -(5 * LimbBits) - 1)

FNeg(x) == IF x.m = <<>> THEN x ELSE [x EXCEPT !.neg = ~x.neg]

FMul(x, y) == FRound(x.neg # y.neg, BigMul(x.m, y.m), x.e + y.e)

\* x / y: the quotient of the significands to 55 bits or more and a sticky
\* bit, rounded
FDiv(x, y) ==
    LET qr == BigDivMod(BigShl(x.m, MantBits + 2), y.m)
        st == IF qr[2] = <<>> THEN 0 ELSE 1
    IN  IF x.m = <<>> THEN FZero
        ELSE FRound(x.neg # y.neg, BigAdd(BigAdd(qr[1], qr[1]), BigOfNat(st)),
                    x.e - y.e - (MantBits + 2) - 1)

\* x + y exactly: a value [neg, m, e] whose m may have any number of bits
XAdd(x, y) ==
    IF x.m = <<>> THEN y
    ELSE IF y.m = <<>> THEN x
    ELSE LET e  == IF x.e < y.e THEN x.e ELSE y.e
             mx == BigShl(x.m, x.e - e)
             my == BigShl(y.m, y.e - e)
             c  == BigCmp(mx, my)
         IN  IF x.neg = y.neg THEN [neg |-> x.neg, m |-> BigAdd(mx, my), e |-> e]
             ELSE IF c = 0 THEN FZero
             ELSE IF c > 0 THEN [neg |-> x.neg, m |-> BigSub(mx, my), e |-> e]
             ELSE [neg |-> y.neg, m |-> BigSub(my, mx), e |-> e]

\* x * n exactly, for a natural number n
XScale(x, n) ==
    IF n = 0 \/ x.m = <<>> THEN FZero
    ELSE [neg |-> x.neg, m |-> BigMul(x.m, BigOfNat(n)), e |-> x.e]

\* x = y as numbers
XEq(x, y) == XAdd(x, FNeg(y)).m = <<>>

FAdd(x, y) == LET r == XAdd(x, y) IN FRound(r.neg, r.m, r.e)

FSub(x, y) == FAdd(x, FNeg(y))

\* x < y
FLt(x, y) == LET d == FSub(x, y) IN d.m # <<>> /\ d.neg

FLe(x, y) == ~FLt(y, x)

\* floor(x) as an integer (|x| < 2^31)
FFloor(x) ==
    IF x.m = <<>> THEN 0
    ELSE LET mag   == IF x.e >= 0 THEN BigShl(x.m, x.e) ELSE BigShr(x.m, -x.e)
             exact == x.e >= 0 \/ BigShl(mag, -x.e) = x.m
         IN  IF ~x.neg THEN BigToNat(mag)
             ELSE IF exact THEN -BigToNat(mag) ELSE -BigToNat(mag) - 1

\* int(x): truncation toward zero
FTrunc(x) ==
    IF x.m = <<>> THEN 0
    ELSE LET mag == IF x.e >= 0 THEN BigShl(x.m, x.e) ELSE BigShr(x.m, -x.e)
         IN  IF x.neg THEN -BigToNat(mag) ELSE BigToNat(mag)

----------------------------------------------------------------------------
(* Text. A string is a sequence of code points.                             *)

\* the characters the inputs are drawn from
WIDE == 19968
NARROW == 97
BACKSLASH == 92
CAPITAL_N == 78

\* the ASS line break '\\N' of add_line_breaks and create_subtitle_file
LineBreak == <<BACKSLASH, CAPITAL_N>>

\* last code point that weighs 0.5
AsciiMax == 127

\* add_line_breaks' default max_chars, which create_subtitle_file uses
DefaultMaxChars == 13

\* lines per subtitle page
LinesPerPage == 2

RECURSIVE Rep(_, _)
Rep(c, n) == IF n = 0 THEN <<>> ELSE <<c>> \o Rep(c, n - 1)

RECURSIVE Flatten(_)
Flatten(ss) == IF ss = <<>> THEN <<>> ELSE Head(ss) \o Flatten(Tail(ss))

\* sep.join(ss)
RECURSIVE Join(_, _)
Join(ss, sep) ==
    IF ss = <<>> THEN <<>>
    ELSE IF Len(ss) = 1 THEN ss[1]
    ELSE ss[1] \o sep \o Join(Tail(ss), sep)

IsAt(s, sep, k) ==
    k + Len(sep) - 1 <= Len(s) /\ SubSeq(s, k, k + Len(sep) - 1) = sep

RECURSIVE SplitFrom(_, _, _, _, _)
\* scan s from position k; from is where the piece being read began
SplitFrom(s, sep, k, from, acc) ==
    IF Len(acc) >= 0 /\ k > Len(s) THEN Append(acc, SubSeq(s, from, Len(s)))
    ELSE IF IsAt(s, sep, k)
         THEN SplitFrom(s, sep, k + Len(sep), k + Len(sep),
                        Append(acc, SubSeq(s, from, k - 1)))
         ELSE SplitFrom(s, sep, k + 1, from, acc)

\* s.split(sep): the pieces between the non-overlapping occurrences of sep,
\* found left to right; always at least one piece
Split(s, sep) == SplitFrom(s, sep, 1, 1, <<>>)

----------------------------------------------------------------------------
(* add_line_breaks. Lengths are counted in half characters, so that the     *)
(* weights 0.5 and 1 of the code are the integers 1 and 2 here and the test *)
(* current_length + char_len > max_chars is                                 *)
(* current_length + char_len > 2 * max_chars.                               *)

char_len(char) == IF char > AsciiMax THEN 2 ELSE 1

\* WrapStep with the new line's length not restarted from the character's
WrapStep_no_restart(st, char, max) ==
    IF st.current_length + char_len(char) > 2 * max /\ st.current_line # <<>>
    THEN [lines          |-> Append(st.lines, st.current_line),
          current_line   |-> <<char>>,
          current_length |-> 0]
    ELSE [lines          |-> st.lines,
          current_line   |-> Append(st.current_line, char),
          current_length |-> st.current_length + char_len(char)]

\* WrapStep with the character that overflows the line lost
WrapStep_drop_char(st, char, max) ==
    IF st.current_length + char_len(char) > 2 * max /\ st.current_line # <<>>
    THEN [lines          |-> Append(st.lines, st.current_line),
          current_line   |-> <<>>,
          current_length |-> 0]
    ELSE [lines          |-> st.lines,
          current_line   |-> Append(st.current_line, char),
          current_length |-> st.current_length + char_len(char)]

\* one iteration of the loop over the characters
WrapStep(st, char, max) ==
    IF st.current_length + char_len(char) > 2 * max /\ st.current_line # <<>>
    THEN [lines          |-> Append(st.lines, st.current_line),
          current_line   |-> <<char>>,
          current_length |-> char_len(char)]
    ELSE [lines          |-> st.lines,
          current_line   |-> Append(st.current_line, char),
          current_length |-> st.current_length + char_len(char)]

\* after the loop: the pending line is kept when it is not empty
WrapClose(st) ==
    IF st.current_line # <<>> THEN Append(st.lines, st.current_line) ELSE st.lines

WrapInit == [lines |-> <<>>, current_line |-> <<>>, current_length |-> 0]

RECURSIVE WrapFrom(_, _, _, _)
WrapFrom(s, max, k, st) ==
    IF st.current_length >= 0 /\ k > Len(s) THEN st
    ELSE WrapFrom(s, max, k + 1, WrapStep(st, s[k], max))

\* the list `lines` that add_line_breaks joins
WrapLines(s, max) == WrapClose(WrapFrom(s, max, 1, WrapInit))

add_line_breaks(s, max) == Join(WrapLines(s, max), LineBreak)

----------------------------------------------------------------------------
(* create_subtitle_file                                                     *)

RECURSIVE Chunk(_, _, _)
\* the paging loop: a page is closed when it holds LinesPerPage lines
Chunk(ls, current_page, acc) ==
    IF Len(acc) >= 0 /\ ls = <<>>
    THEN (IF current_page # <<>> THEN Append(acc, current_page) ELSE acc)
    ELSE LET p == Append(current_page, Head(ls))
         IN  IF Len(p) = LinesPerPage
             THEN Chunk(Tail(ls), <<>>, Append(acc, p))
             ELSE Chunk(Tail(ls), p, acc)

Paginate(ls) == Chunk(ls, <<>>, <<>>)

RECURSIVE Weight(_)
\* the wrapping weight of a string, in half characters
Weight(line) == IF line = <<>> THEN 0 ELSE char_len(Head(line)) + Weight(Tail(line))

RECURSIVE SumLen_weighted(_)
\* SumLen with the wrapping weights in place of the character counts
SumLen_weighted(page) ==
    IF page = <<>> THEN 0 ELSE Weight(Head(page)) + SumLen_weighted(Tail(page))

RECURSIVE SumLen(_)
\* sum(len(line) for line in page)
SumLen(page) == IF page = <<>> THEN 0 ELSE Len(Head(page)) + SumLen(Tail(page))

RECURSIVE SumPages(_)
\* sum(len(line) for page in pages for line in page)
SumPages(ps) == IF ps = <<>> THEN 0 ELSE SumLen(Head(ps)) + SumPages(Tail(ps))

\* total_chars without the line that makes a zero count 1
TotalChars_unguarded(ps) == SumPages(ps)

\* total_chars: the count, or 1 when the count is 0
TotalChars(ps) == IF SumPages(ps) = 0 THEN 1 ELSE SumPages(ps)

\* math.fmod(x, w) for an integer w > 0: the remainder of the truncated
\* division, of the sign of x; it is exact
FFmod(x, w) ==
    LET n == IF x.e >= 0 THEN BigShl(x.m, x.e) ELSE x.m
        d == IF x.e >= 0 THEN BigOfNat(w) ELSE BigShl(BigOfNat(w), -x.e)
        q == BigDivMod(n, d)[1]
    IN  FRound(x.neg, BigSub(n, BigMul(d, q)), IF x.e >= 0 THEN 0 ELSE x.e)

\* Python's x % w for a float x and an integer w > 0: fmod, moved up by w
\* (a float addition) when it is negative
PyMod(x, w) ==
    LET r == FFmod(x, w)
    IN  IF r.m = <<>> THEN FZero
        ELSE IF r.neg THEN FAdd(r, FOfInt(w))
        ELSE r

\* format_time: <<h, m, s, cs>>, written as h:mm:ss.cc. For t >= 0 the
\* remainders are exact and are taken on the whole part of t.
format_time(t) ==
    IF ~t.neg
    THEN LET n == FFloor(t)
         IN  <<n \div 3600,
               (n % 3600) \div 60,
               n % 60,
               FFloor(FMul(t, FOfInt(100))) % 100>>
    ELSE <<FFloor(t) \div 3600,
           FFloor(PyMod(t, 3600)) \div 60,
           FTrunc(PyMod(t, 60)),
           FTrunc(PyMod(FMul(t, FOfInt(100)), 100))>>

\* duration of page i (0-based) starting at current_time
PageDuration(ps, k, dur, now) ==
    IF k = Len(ps) - 1
    THEN FSub(dur, now)
    ELSE FMul(FDivInt(SumLen(ps[k + 1]), TotalChars(ps)), dur)

\* one iteration of the loop over the pages: the Dialogue event it writes.
\* start_time and end_time are the loop's floats, start_str and end_str what
\* format_time makes of them.
PageEvent(ps, k, dur, now) ==
    LET page_duration == PageDuration(ps, k, dur, now)
        end_time      == FAdd(now, page_duration)
        start_time    == IF FLt(end_time, now) THEN end_time ELSE now
    IN  [start_time |-> start_time,
         end_time   |-> end_time,
         start_str  |-> format_time(start_time),
         end_str    |-> format_time(end_time),
         page_text  |-> Join(ps[k + 1], LineBreak)]

----------------------------------------------------------------------------
(* generate_zoompan_filter                                                  *)

EFFECT_INTENSITY_TENTHS == 3
FPS == 25
ZOOM_INPUT_W == 2160
ZOOM_INPUT_H == 3840

FOne == FOfInt(1)

\* int(duration * fps) with int rounding to the nearest integer instead
TotalFrames_rounded(dur, fps) ==
    FFloor(FAdd(FMul(dur, FOfInt(fps)), FDivInt(1, 2)))

\* total_frames = int(duration * fps)
TotalFrames(dur, fps) == FTrunc(FMul(dur, FOfInt(fps)))

\* max_zoom = 1.0 + (0.5 * intensity)
MaxZoom(intens) == FAdd(FOne, FMul(FDivInt(1, 2), intens))

\* random.uniform(a, b) = a + (b - a) * random(), r the value of random()
uniform(a, b, r) == FAdd(a, FMul(FSub(b, a), r))

\* dim * (1 - 1/z) with the 1 - dropped
MaxOffset_inverse(dim, z) == FMul(FOfInt(dim), FDiv(FOne, z))

\* dim * (1 - 1/z)
MaxOffset(dim, z) == FMul(FOfInt(dim), FSub(FOne, FDiv(FOne, z)))

\* dim * (1 - 1/z) / 2
Centered(dim, z) == FDiv(MaxOffset(dim, z), FOfInt(2))

\* the lower end of the zoom sampled for a zoom in or out, and for a pan
ZoomFrom == FAdd(FOne, FDivInt(1, 10))
PanFrom == FAdd(FOne, FDivInt(2, 10))

\* [k1, k2] for the effect chosen; rs are the values random() returns, in
\* the order they are drawn
Keyframes(effect, frames, intens, width, height, rs) ==
    IF effect = 0
    THEN LET z_end == uniform(ZoomFrom, MaxZoom(intens), rs[1])
         IN  <<[f |-> 0, z |-> FOne, x |-> FZero, y |-> FZero],
               [f |-> frames, z |-> z_end,
                x |-> Centered(width, z_end), y |-> Centered(height, z_end)]>>
    ELSE IF effect = 1
    THEN LET z_start == uniform(ZoomFrom, MaxZoom(intens), rs[1])
         IN  <<[f |-> 0, z |-> z_start,
                x |-> Centered(width, z_start), y |-> Centered(height, z_start)],
               [f |-> frames, z |-> FOne, x |-> FZero, y |-> FZero]>>
    ELSE LET z_val == uniform(PanFrom, MaxZoom(intens), rs[1])
             max_x == MaxOffset(width, z_val)
             max_y == MaxOffset(height, z_val)
         IN  <<[f |-> 0, z |-> z_val,
                x |-> uniform(FZero, max_x, rs[2]), y |-> uniform(FZero, max_y, rs[3])],
               [f |-> frames, z |-> z_val,
                x |-> uniform(FZero, max_x, rs[4]), y |-> uniform(FZero, max_y, rs[5])]>>

\* get_interp_expr with the two keyframes taken in the wrong order
get_interp_expr_swapped(kfs, frames, attr) ==
    [v1 |-> kfs[2][attr], v2 |-> kfs[1][attr], div |-> frames]

\* get_interp_expr(attr): the text  v1+(v2-v1)*on/total_frames , as the
\* numbers it holds
get_interp_expr(kfs, frames, attr) ==
    [v1 |-> kfs[1][attr], v2 |-> kfs[2][attr], div |-> frames]

\* expr.div times the value of the expression at frame on, exactly:
\* div * (v1 + (v2 - v1) * on / div)
ExprTimesDiv(expr, on) ==
    XAdd(XScale(expr.v1, expr.div), XScale(XAdd(expr.v2, FNeg(expr.v1)), on))

----------------------------------------------------------------------------
(* State                                                                    *)

VARIABLES
    pc,              \* where the function being run stands
    text,            \* the caption / the text to wrap
    max_chars,       \* add_line_breaks: the width budget
    pos,             \* add_line_breaks: index of the next character
    lines,           \* add_line_breaks: closed lines; create_subtitle_file: split lines
    current_line,    \* add_line_breaks
    current_length,  \* add_line_breaks, in half characters
    wrapped_text,    \* add_line_breaks' result
    duration_ms,     \* the slide duration in milliseconds
    duration,        \* the float duration_ms / 1000
    pages,           \* create_subtitle_file
    total_chars,     \* create_subtitle_file
    i,               \* create_subtitle_file: index of the next page
    current_time,    \* create_subtitle_file
    events,          \* create_subtitle_file: the Dialogue events, in order
    intensity,       \* generate_zoompan_filter: the float intensity
    total_frames,    \* generate_zoompan_filter
    effect_type,     \* generate_zoompan_filter: 0 zoom in, 1 zoom out, 2 pan
    keyframes,       \* generate_zoompan_filter: [k1, k2]
    filter,          \* generate_zoompan_filter's result
    variant,         \* main: "ffmpeg" (make_video_ffmpeg.py) or "moviepy" (make_video.py)
    list_lens,            \* main: lengths of list, audio_list, duration_list, image_list
    idx,             \* main: the loop's i, the slide being processed
    temp_dir,        \* main: the temporary directory: "none", "created", "removed"
    temp_files,      \* main: the files in the temporary directory
    cwd_files,       \* main: the files written to the working directory
    segment_files,   \* main: segment_files (ffmpeg) or clips (moviepy)
    slides,          \* main: per slide rendered, the durations it was rendered with
    error            \* main: the exception main ended with, or Null

vars == <<pc, text, max_chars, pos, lines, current_line, current_length,
          wrapped_text, duration_ms, duration, pages, total_chars, i,
          current_time, events, intensity, total_frames, effect_type,
          keyframes, filter, variant, list_lens, idx, temp_dir, temp_files,
          cwd_files, segment_files, slides, error>>

Null == "null"

wrapVars == <<max_chars, pos, current_line, current_length>>
subVars == <<duration_ms, duration, pages, total_chars, i, current_time, events>>
mainVars == <<variant, list_lens, idx, temp_dir, temp_files, cwd_files, segment_files,
             slides, error>>
zoomVars == <<intensity, total_frames, effect_type, keyframes, filter, mainVars>>
textVars == <<text, max_chars, pos, lines, current_line, current_length, wrapped_text>>

NoMain ==
    /\ variant = Null /\ list_lens = <<>> /\ idx = 0 /\ temp_dir = "none"
    /\ temp_files = {} /\ cwd_files = {}
    /\ segment_files = <<>> /\ slides = <<>> /\ error = Null

NoZoom ==
    /\ intensity = FZero /\ total_frames = 0 /\ effect_type = Null
    /\ keyframes = <<>> /\ filter = Null
    /\ NoMain


\* bounds of the inputs
MaxLen == 4
MaxWidth == 3
MaxWide == 30
MaxNarrow == 40

Alphabet == {WIDE, NARROW, BACKSLASH, CAPITAL_N}

RECURSIVE TextsOfLen(_)
TextsOfLen(n) ==
    IF n = 0 THEN {<<>>}
    ELSE {Append(t, c) : t \in TextsOfLen(n - 1), c \in Alphabet}

Texts == UNION {TextsOfLen(n) : n \in 0..MaxLen}

----------------------------------------------------------------------------
(* add_line_breaks, one character at a time                                 *)

InitWrap ==
    /\ pc = "wrap"
    /\ text \in Texts
    /\ max_chars \in 0..MaxWidth
    /\ pos = 1
    /\ lines = <<>>
    /\ current_line = <<>>
    /\ current_length = 0
    /\ wrapped_text = Null
    /\ duration_ms = 0 /\ duration = FZero /\ pages = <<>> /\ total_chars = 0
    /\ i = 0 /\ current_time = FZero /\ events = <<>>
    /\ NoZoom

WrapChar ==
    /\ pc = "wrap"
    /\ pos <= Len(text)
    /\ LET st == WrapStep([lines |-> lines, current_line |-> current_line,
                           current_length |-> current_length], text[pos], max_chars)
       IN  /\ lines' = st.lines
           /\ current_line' = st.current_line
           /\ current_length' = st.current_length
    /\ pos' = pos + 1
    /\ UNCHANGED <<pc, text, max_chars, wrapped_text, subVars, zoomVars>>

WrapReturn ==
    /\ pc = "wrap"
    /\ pos > Len(text)
    /\ lines' = WrapClose([lines |-> lines, current_line |-> current_line,
                           current_length |-> current_length])
    /\ wrapped_text' = Join(lines', LineBreak)
    /\ pc' = "wrapped"
    /\ UNCHANGED <<text, max_chars, pos, current_line, current_length, subVars, zoomVars>>

NextWrap == WrapChar \/ WrapReturn

SpecWrap == InitWrap /\ [][NextWrap]_vars

----------------------------------------------------------------------------
(* create_subtitle_file, one page at a time                                 *)

\* slide durations in milliseconds
DurationsMs == {0, 5000, 6000, 7790}

SubTexts ==
    {Rep(WIDE, a) \o m \o Rep(NARROW, b) :
        a \in 0..MaxWide, b \in 0..MaxNarrow, m \in {<<>>, LineBreak}}

InitSub ==
    /\ pc = "sub"
    /\ text \in SubTexts
    /\ duration_ms \in DurationsMs
    /\ duration = FDivInt(duration_ms, 1000)
    /\ max_chars = DefaultMaxChars
    /\ pos = 0 /\ current_line = <<>> /\ current_length = 0
    /\ wrapped_text = Null /\ lines = <<>> /\ pages = <<>> /\ total_chars = 0
    /\ i = 0 /\ current_time = FZero /\ events = <<>>
    /\ NoZoom

\* wrap, split, page, count
SubPaginate ==
    /\ pc = "sub"
    /\ wrapped_text' = add_line_breaks(text, max_chars)
    /\ lines' = Split(wrapped_text', LineBreak)
    /\ pages' = Paginate(lines')
    /\ total_chars' = TotalChars(pages')
    /\ current_time' = FZero
    /\ events' = <<>>
    /\ i' = 0
    /\ pc' = "events"
    /\ UNCHANGED <<text, wrapVars, duration_ms, duration, zoomVars>>

\* one iteration of the loop over the pages; page_chars / total_chars
\* raises ZeroDivisionError when total_chars is 0
SubEvent ==
    /\ pc = "events"
    /\ i < Len(pages)
    /\ IF i # Len(pages) - 1 /\ TotalChars(pages) = 0
       THEN /\ pc' = "raised"
            /\ UNCHANGED <<events, current_time, i>>
       ELSE /\ LET ev == PageEvent(pages, i, duration, current_time)
               IN  /\ events' = Append(events, ev)
                   /\ current_time' = ev.end_time
            /\ i' = i + 1
            /\ pc' = pc
    /\ UNCHANGED <<text, wrapVars, lines, wrapped_text, duration_ms, duration,
                   pages, total_chars, zoomVars>>

SubWrite ==
    /\ pc = "events"
    /\ i = Len(pages)
    /\ pc' = "written"
    /\ UNCHANGED <<text, wrapVars, lines, wrapped_text, subVars, zoomVars>>

NextSub == SubPaginate \/ SubEvent \/ SubWrite

SpecSub == InitSub /\ [][NextSub]_vars

----------------------------------------------------------------------------
(* generate_zoompan_filter(duration, intensity, FPS, ZOOM_INPUT_W,          *)
(* ZOOM_INPUT_H)                                                            *)

\* resolution of the intensities tried: k / IntensitySteps for k in 0..IntensitySteps
IntensitySteps == 10
\* resolution of the values of random() tried: k / RandomSteps below 1, and
\* the largest value random() has, 1 - 2^-53
RandomSteps == 1

ZoomDurationsMs == {0, 39, 40, 1030, 1160}

LargestRandom == [neg |-> FALSE, m |-> BigSub(BigShl(<<1>>, MantBits), <<1>>), e |-> -MantBits]

Randoms == {FDivInt(k, RandomSteps) : k \in 0..(RandomSteps - 1)} \cup {LargestRandom}

InitZoom ==
    /\ pc = "zoom"
    /\ duration_ms \in ZoomDurationsMs
    /\ duration = FDivInt(duration_ms, 1000)
    /\ \E k \in 0..IntensitySteps : intensity = FDivInt(k, IntensitySteps)
    /\ total_frames = 0 /\ effect_type = Null /\ keyframes = <<>> /\ filter = Null
    /\ text = <<>> /\ max_chars = 0 /\ pos = 0 /\ lines = <<>> /\ current_line = <<>>
    /\ current_length = 0 /\ wrapped_text = Null
    /\ pages = <<>> /\ total_chars = 0 /\ i = 0 /\ current_time = FZero /\ events = <<>>
    /\ NoMain

\* total_frames; no frame gives the static filter
ZoomFrames ==
    /\ pc = "zoom"
    /\ total_frames' = TotalFrames(duration, FPS)
    /\ IF total_frames' <= 0
       THEN filter' = [kind |-> "scale"] /\ pc' = "returned"
       ELSE filter' = filter /\ pc' = "effect"
    /\ UNCHANGED <<textVars, subVars, intensity, effect_type, keyframes, mainVars>>

\* the effect and its two keyframes
ZoomEffect ==
    /\ pc = "effect"
    /\ \E effect \in 0..2 :
          /\ effect_type' = effect
          /\ \E rs \in [1..(IF effect = 2 THEN 5 ELSE 1) -> Randoms] :
                keyframes' = Keyframes(effect, total_frames, intensity,
                                       ZOOM_INPUT_W, ZOOM_INPUT_H, rs)
    /\ pc' = "compile"
    /\ UNCHANGED <<textVars, subVars, intensity, total_frames, filter, mainVars>>

\* the three expressions and the filter
ZoomCompile ==
    /\ pc = "compile"
    /\ filter' = [kind |-> "zoompan",
                  z    |-> get_interp_expr(keyframes, total_frames, "z"),
                  x    |-> get_interp_expr(keyframes, total_frames, "x"),
                  y    |-> get_interp_expr(keyframes, total_frames, "y"),
                  d    |-> total_frames,
                  fps  |-> FPS]
    /\ pc' = "returned"
    /\ UNCHANGED <<textVars, subVars, intensity, total_frames, effect_type, keyframes, mainVars>>

NextZoom == ZoomFrames \/ ZoomEffect \/ ZoomCompile

SpecZoom == InitZoom /\ [][NextZoom]_vars

----------------------------------------------------------------------------
(* create_subtitle_file and generate_zoompan_filter on degenerate inputs    *)

\* durations of no frame: zero and negative
DegenerateDurationsMs == {0, -40, -1500, -61500}

\* captions of no character, of line breaks only, and short ones
DegenerateTexts ==
    {<<>>, LineBreak, LineBreak \o LineBreak, LineBreak \o LineBreak \o LineBreak}
        \cup {Rep(WIDE, a) \o Rep(NARROW, b) : a \in 0..MaxLen, b \in 0..MaxLen}

\* either function, called with a degenerate input; the captions are also
\* written over a usual duration
InitDegenerate ==
    /\ \/ /\ pc = "sub"
          /\ text \in DegenerateTexts
          /\ duration_ms \in DegenerateDurationsMs \cup DurationsMs
          /\ intensity = FZero
       \/ /\ pc = "zoom"
          /\ text = <<>>
          /\ duration_ms \in DegenerateDurationsMs
          /\ intensity = FDivInt(EFFECT_INTENSITY_TENTHS, 10)
    /\ duration = FDivInt(duration_ms, 1000)
    /\ max_chars = DefaultMaxChars
    /\ pos = 0 /\ current_line = <<>> /\ current_length = 0
    /\ wrapped_text = Null /\ lines = <<>> /\ pages = <<>> /\ total_chars = 0
    /\ i = 0 /\ current_time = FZero /\ events = <<>>
    /\ total_frames = 0 /\ effect_type = Null /\ keyframes = <<>> /\ filter = Null
    /\ NoMain

NextDegenerate == SubPaginate \/ SubEvent \/ SubWrite \/ ZoomFrames

SpecDegenerate == InitDegenerate /\ [][NextDegenerate]_vars

----------------------------------------------------------------------------
(* main, slide by slide: make_video_ffmpeg.py ("ffmpeg") and make_video.py  *)
(* ("moviepy"). What the network, ffprobe, ffmpeg and moviepy answer is     *)
(* chosen freely.                                                           *)

MaxSlides == 2

\* duration_list entries, and the lengths the audio files turn out to have
SlideDurationsMs == {2800, 3200}
AudioDurationsMs == {3000}

\* what measuring an audio file gives: <<its length>>, or <<>> on failure
Measured == {<<ms>> : ms \in AudioDurationsMs} \cup {<<>>}

Variants == {"ffmpeg", "moviepy"}

\* min(a, b) of two floats as Python computes it: b if b < a, else a
FMin(a, b) == IF FLt(b, a) THEN b ELSE a

\* the length of a composite of clips of lengths a and b: the later end
FMax(a, b) == IF FLt(a, b) THEN b ELSE a

\* the length check with the last two lists left out
LengthsAgree_audio_only(ls) == ls[2] = ls[1]

\* the lists all have the length of `list`
LengthsAgree(ls) == \A k \in 2..4 : ls[k] = ls[1]

InitMain ==
    /\ pc = "validate"
    /\ variant \in Variants
    /\ list_lens \in [1..4 -> 0..MaxSlides]
    /\ idx = 0
    /\ temp_dir = "none"
    /\ temp_files = {} /\ cwd_files = {} /\ segment_files = <<>> /\ slides = <<>>
    /\ error = Null
    /\ duration_ms = 0 /\ duration = FZero
    /\ intensity = FDivInt(EFFECT_INTENSITY_TENTHS, 10)
    /\ total_frames = 0 /\ effect_type = Null /\ keyframes = <<>> /\ filter = Null
    /\ text = <<>> /\ max_chars = 0 /\ pos = 0 /\ lines = <<>> /\ current_line = <<>>
    /\ current_length = 0 /\ wrapped_text = Null
    /\ pages = <<>> /\ total_chars = 0 /\ i = 0 /\ current_time = FZero /\ events = <<>>

mainRest == <<textVars, pages, total_chars, i, current_time, events, intensity,
              effect_type, keyframes, filter, variant, list_lens>>

\* an exception leaves the with block: the temporary directory is removed
Raise(e) ==
    /\ pc' = "failed"
    /\ error' = e
    /\ temp_dir' = "removed"
    /\ temp_files' = {}

\* the length check, before the temporary directory exists
Validate ==
    /\ pc = "validate"
    /\ IF LengthsAgree(list_lens)
       THEN pc' = "mktemp" /\ error' = error
       ELSE pc' = "failed" /\ error' = "ValueError"
    /\ UNCHANGED <<mainRest, duration_ms, duration, total_frames, idx, temp_dir,
                   temp_files, cwd_files, segment_files, slides>>

\* with tempfile.TemporaryDirectory() as temp_dir
MakeTempDir ==
    /\ pc = "mktemp"
    /\ temp_dir' = "created"
    /\ pc' = "audio"
    /\ UNCHANGED <<mainRest, duration_ms, duration, total_frames, idx, temp_files,
                   cwd_files, segment_files, slides, error>>

\* the loop header: the next slide and its duration, or the end of the loop
NextSlide ==
    /\ pc = "audio"
    /\ idx = list_lens[1]
    /\ pc' = "concat"
    /\ UNCHANGED <<mainRest, duration_ms, duration, total_frames, idx, temp_dir, temp_files,
                   cwd_files, segment_files, slides, error>>

\* duration = duration_ms / 1000; download_resource(audio_url, audio_path)
DownloadAudio ==
    /\ pc = "audio"
    /\ idx < list_lens[1]
    /\ \E ms \in SlideDurationsMs :
          /\ duration_ms' = ms
          /\ duration' = FDivInt(ms, 1000)
    /\ \/ /\ temp_files' = temp_files \cup {<<"audio", idx>>}
          /\ temp_dir' = temp_dir
          /\ pc' = "image"
          /\ error' = error
       \/ Raise("ResourceFetchError")
    /\ UNCHANGED <<mainRest, total_frames, idx, cwd_files, segment_files, slides>>

\* download_resource(image_url, image_path)
DownloadImage ==
    /\ pc = "image"
    /\ \/ /\ temp_files' = temp_files \cup {<<"image", idx>>}
          /\ temp_dir' = temp_dir
          /\ pc' = "render"
          /\ error' = error
       \/ Raise("ResourceFetchError")
    /\ UNCHANGED <<mainRest, duration_ms, duration, total_frames, idx, cwd_files,
                   segment_files, slides>>

\* create_video_segment: the probe, the filter, the subtitle file, ffmpeg.
\* probed is <<the audio length ffprobe reports>>, or <<>> when it fails.
VideoSegment ==
    /\ pc = "render"
    /\ variant = "ffmpeg"
    /\ \E probed \in Measured, ffmpeg_ok \in BOOLEAN :
          LET used == IF probed = <<>> THEN duration
                      ELSE FMin(duration, FDivInt(probed[1], 1000))
          IN  /\ total_frames' = TotalFrames(used, FPS)
              /\ slides' = Append(slides,
                                  [target |-> duration, probed |-> probed,
                                   render |-> used, motion |-> used, caption |-> used])
              /\ IF ffmpeg_ok
                 THEN /\ temp_files' = temp_files \cup {<<"subtitle", idx>>, <<"segment", idx>>}
                      /\ temp_dir' = temp_dir
                      /\ segment_files' = Append(segment_files, <<"segment", idx>>)
                      /\ idx' = idx + 1
                      /\ pc' = "audio"
                      /\ error' = error
                 ELSE /\ Raise("RenderInvocationError")
                      /\ UNCHANGED <<segment_files, idx>>
    /\ UNCHANGED <<mainRest, duration_ms, duration, cwd_files>>

\* make_video.py: the image clip (made before the audio is measured), the
\* audio clip, the subtitle clip, the composite of image and subtitle. opened
\* is <<the audio file's length>>, or <<>> when it cannot be read.
MoviepyClip ==
    /\ pc = "render"
    /\ variant = "moviepy"
    /\ \E opened \in Measured :
          IF opened = <<>>
          THEN /\ Raise("AudioReadError")
               /\ UNCHANGED <<slides, segment_files, idx>>
          ELSE LET used == FMin(FDivInt(opened[1], 1000), duration)
               IN  /\ slides' = Append(slides,
                                       [target |-> duration, probed |-> opened,
                                        render |-> FMax(duration, used),
                                        motion |-> duration, caption |-> used])
                   /\ segment_files' = Append(segment_files, <<"clip", idx>>)
                   /\ idx' = idx + 1
                   /\ pc' = "audio"
                   /\ error' = error
                   /\ temp_files' = temp_files
                   /\ temp_dir' = temp_dir
    /\ UNCHANGED <<mainRest, duration_ms, duration, total_frames, cwd_files>>

\* concatenate_videos (ffmpeg) or concatenate_videoclips and write_videofile
\* (moviepy), then the end of the with block. ok: the writer succeeds; wrote:
\* it has written output.mp4, whole or, when it fails, in part, which
\* nothing removes.
Concatenate ==
    /\ pc = "concat"
    /\ \E ok \in BOOLEAN, wrote \in BOOLEAN :
          /\ ok => wrote
          /\ cwd_files' = cwd_files
                 \cup (IF variant = "ffmpeg" THEN {"filelist.txt"} ELSE {})
                 \cup (IF wrote THEN {"output.mp4"} ELSE {})
          /\ IF ok
             THEN pc' = "done" /\ error' = error /\ temp_dir' = "removed" /\ temp_files' = {}
             ELSE Raise("ConcatError")
    /\ UNCHANGED <<mainRest, duration_ms, duration, total_frames, idx, segment_files,
                   slides>>

NextMain ==
    \/ Validate
    \/ MakeTempDir
    \/ NextSlide
    \/ DownloadAudio
    \/ DownloadImage
    \/ VideoSegment
    \/ MoviepyClip
    \/ Concatenate

SpecMain == InitMain /\ [][NextMain]_vars

----------------------------------------------------------------------------
(* Claims about create_subtitle_file (SpecSub)                              *)

HasLineBreak(s) == \E k \in 1..Len(s) : IsAt(s, LineBreak, k)

\* C1: the events written form one contiguous track: as many events as
\* pages, the first starting at 0, each later one starting where the one
\* before ends, and the last ending at the slide duration d exactly, both
\* as the loop's times and as the times written (d written by format_time).
C1_ContiguousTrack ==
    pc = "written" =>
        /\ Len(events) = Len(pages)
        /\ events[1].start_time = FZero
        /\ events[1].start_str = <<0, 0, 0, 0>>
        /\ \A n \in 2..Len(events) :
              /\ events[n].start_time = events[n - 1].end_time
              /\ events[n].start_str = events[n - 1].end_str
        /\ events[Len(events)].end_time = duration
        /\ events[Len(events)].end_str = format_time(duration)

\* C2: the split lines are grouped in order into pages of 2 lines, only the
\* last page may hold 1; every page but the last ends at its start plus
\* (page_chars / total_chars) * duration, the counts being numbers of
\* characters; 30 wide characters over 6.0 s wrap to 13, 13 and 4 characters
\* and give the windows [0.00, 5.20) and [5.20, 6.00).
C2_ProportionalWindows ==
    pc = "written" =>
        /\ lines = Split(wrapped_text, LineBreak)
        /\ (text # <<>> /\ ~HasLineBreak(text)
               => lines = WrapLines(text, DefaultMaxChars))
        /\ Flatten(pages) = lines
        /\ \A n \in 1..Len(pages) :
              /\ Len(pages[n]) \in 1..2
              /\ n < Len(pages) => Len(pages[n]) = 2
        /\ Len(events) = Len(pages)
        /\ \A n \in 1..(Len(pages) - 1) :
              events[n].end_time =
                  FAdd(events[n].start_time,
                       FMul(FDivInt(Len(Flatten(pages[n])),
                                    IF Len(Flatten(lines)) = 0 THEN 1
                                    ELSE Len(Flatten(lines))),
                            duration))
        /\ (text = Rep(WIDE, 30) /\ duration_ms = 6000
               => /\ <<Len(lines[1]), Len(lines[2]), Len(lines[3])>> = <<13, 13, 4>>
                  /\ Len(events) = 2
                  /\ <<events[1].start_str, events[1].end_str>>
                        = <<<<0, 0, 0, 0>>, <<0, 0, 5, 20>>>>
                  /\ <<events[2].start_str, events[2].end_str>>
                        = <<<<0, 0, 5, 20>>, <<0, 0, 6, 0>>>>)

\* a caption whose first page mixes wide and narrow characters, written
\* over two pages
C2_Witness ==
    /\ pc = "written"
    /\ Len(pages) = 2
    /\ duration_ms = 6000
    /\ Weight(pages[1][2]) # 2 * Len(pages[1][2])
    /\ Weight(pages[1][2]) # Len(pages[1][2])

----------------------------------------------------------------------------
(* Claims about add_line_breaks (SpecWrap)                                  *)

LineFits(line) ==
    \/ Weight(line) <= 2 * max_chars
    \/ Len(line) = 1 /\ char_len(line[1]) > 2 * max_chars

\* C3: no line weighs more than max_chars, except a line of exactly one
\* character that alone weighs more than max_chars; no character is ever
\* dropped and no empty line is ever closed.
C3_LineWeight ==
    /\ \A n \in 1..Len(lines) : lines[n] # <<>> /\ LineFits(lines[n])
    /\ pc = "wrap" => Flatten(lines) \o current_line = SubSeq(text, 1, pos - 1)
    /\ pc = "wrapped" => Flatten(lines) = text

\* a wrapped text with a line of one over-weight character
C3_Witness ==
    /\ pc = "wrapped"
    /\ Len(lines) >= 2
    /\ \E n \in 1..Len(lines) : Len(lines[n]) = 1 /\ Weight(lines[n]) > 2 * max_chars

RECURSIVE Unbreak(_, _)
\* s without the line breaks that follow each of the lines of lengths lens
\* but the last; <<-1>> when a line break is not where it is due
Unbreak(s, lens) ==
    IF lens = <<>> \/ Len(lens) = 1 THEN s
    ELSE IF IsAt(s, LineBreak, Head(lens) + 1)
         THEN SubSeq(s, 1, Head(lens))
              \o Unbreak(SubSeq(s, Head(lens) + 1 + Len(LineBreak), Len(s)), Tail(lens))
         ELSE <<-1>>

\* C4: the returned text with the inserted line breaks removed is the
\* original text, and the empty text gives no line and the empty text.
C4_RoundTrip ==
    pc = "wrapped" =>
        /\ Unbreak(wrapped_text, [n \in 1..Len(lines) |-> Len(lines[n])]) = text
        /\ Len(wrapped_text) = Len(text) + Len(LineBreak) * (IF lines = <<>> THEN 0 ELSE Len(lines) - 1)
        /\ text = <<>> => lines = <<>> /\ wrapped_text = <<>>

\* a text that holds a line break of its own, wrapped into three lines or more
C4_Witness ==
    /\ pc = "wrapped"
    /\ Len(lines) >= 3
    /\ HasLineBreak(text)

----------------------------------------------------------------------------
(* Claims about generate_zoompan_filter (SpecZoom)                          *)

\* dim * (1 - 1/zoom), in floats
CropLimit(dim, z) == FMul(FOfInt(dim), FSub(FOfInt(1), FDiv(FOfInt(1), z)))

\* C5: both keyframes have zoom >= 1.0, 0 <= x <= width * (1 - 1/zoom) and
\* 0 <= y <= height * (1 - 1/zoom); the first is at frame 0 and the last at
\* total_frames.
C5_MotionBounds ==
    keyframes # <<>> =>
        /\ Len(keyframes) = 2
        /\ keyframes[1].f = 0
        /\ keyframes[2].f = total_frames
        /\ \A n \in 1..2 :
              LET k == keyframes[n] IN
              /\ FLe(FOfInt(1), k.z)
              /\ FLe(FZero, k.x) /\ FLe(k.x, CropLimit(ZOOM_INPUT_W, k.z))
              /\ FLe(FZero, k.y) /\ FLe(k.y, CropLimit(ZOOM_INPUT_H, k.z))

\* a pan zoomed in, from the left edge to a place right of and below the
\* top left corner
C5_Witness ==
    /\ pc = "returned"
    /\ keyframes # <<>>
    /\ effect_type = 2
    /\ FLt(FOne, keyframes[2].z)
    /\ keyframes[1].x = FZero
    /\ FLt(FZero, keyframes[2].x)
    /\ FLt(FZero, keyframes[2].y)

\* C6: no sampled zoom exceeds max_zoom = 1.0 + 0.5 * intensity: the zoom
\* in's end zoom and the zoom out's start zoom are in (1.0, max_zoom], the
\* pan's zoom is in (1.2, max_zoom].
C6_ZoomCap ==
    keyframes # <<>> =>
        LET max_zoom == FAdd(FOfInt(1), FMul(FDivInt(1, 2), intensity))
            sampled  == IF effect_type = 0 THEN keyframes[2].z ELSE keyframes[1].z
        IN  /\ \A n \in 1..2 : FLe(keyframes[n].z, max_zoom)
            /\ effect_type \in {0, 1} => FLt(FOfInt(1), sampled) /\ FLe(sampled, max_zoom)
            /\ effect_type = 2 => FLt(PanFrom, sampled) /\ FLe(sampled, max_zoom)

\* C7: for each of z, x and y the compiled expression has the first
\* keyframe's value at on = 0, the last keyframe's value at on =
\* total_frames, and v1 + (v2 - v1) * on / total_frames at every frame of
\* 0..total_frames (the expression evaluated in exact arithmetic; both sides
\* are multiplied by total_frames).
C7_Interpolation ==
    (pc = "returned" /\ filter.kind = "zoompan") =>
        \A attr \in {"z", "x", "y"} :
            LET first == keyframes[1][attr]
                last  == keyframes[2][attr]
            IN  /\ XEq(ExprTimesDiv(filter[attr], 0), XScale(first, total_frames))
                /\ XEq(ExprTimesDiv(filter[attr], total_frames), XScale(last, total_frames))
                /\ \A on \in 0..total_frames :
                      XEq(ExprTimesDiv(filter[attr], on),
                          XAdd(XScale(first, total_frames - on), XScale(last, on)))

\* a zoom out over 28 frames, compiled: the two zooms differ
C7_Witness ==
    /\ pc = "returned"
    /\ filter.kind = "zoompan"
    /\ effect_type = 1
    /\ total_frames = 28
    /\ ~XEq(keyframes[1].z, keyframes[2].z)
    /\ ~XEq(keyframes[1].x, keyframes[2].x)

\* C9 as claimed: total_frames is duration * fps rounded to the nearest
\* integer (duration_ms * FPS / 1000 is at most half a frame away).
C9_RoundedFrames ==
    pc # "zoom" =>
        /\ 2 * (total_frames * 1000 - duration_ms * FPS) <= 1000
        /\ 2 * (duration_ms * FPS - total_frames * 1000) <= 1000

\* C9 as the code has it: total_frames is the float product duration * fps
\* truncated: the whole part of the exact product, or one less where the
\* exact product is whole and the float product falls short of it; it is
\* the filter's d and the divisor of its three expressions.
C9_TruncatedFrames ==
    pc # "zoom" =>
        /\ \/ /\ total_frames * 1000 <= duration_ms * FPS
              /\ duration_ms * FPS < (total_frames + 1) * 1000
           \/ /\ (duration_ms * FPS) % 1000 = 0
              /\ total_frames = (duration_ms * FPS) \div 1000 - 1
        /\ (pc = "returned" /\ total_frames > 0) =>
              /\ filter.d = total_frames
              /\ \A attr \in {"z", "x", "y"} : filter[attr].div = total_frames
        /\ (pc = "returned" /\ total_frames <= 0) => filter = [kind |-> "scale"]

\* 1.03 s at 25 fps: 25.75 frames, 25 after truncation, 26 to the nearest
C9_Witness ==
    /\ pc = "returned"
    /\ duration_ms = 1030
    /\ total_frames = 25
    /\ filter.d = 25

----------------------------------------------------------------------------
(* Claims about degenerate inputs (SpecDegenerate)                          *)

\* nothing raises; a duration <= 0 gives the static filter; the subtitle
\* file holds one event per page, and at least one
DegenerateHandled ==
    /\ pc # "raised"
    /\ (pc = "returned" /\ duration_ms <= 0) => filter = [kind |-> "scale"]
    /\ pc = "written" => Len(events) = Len(pages) /\ Len(events) >= 1

\* C11 as claimed: degenerate inputs never raise, a zero or negative
\* duration gives the static filter and a written subtitle file, and the
\* empty caption gives exactly one page whose window is [0, duration].
C11_DegenerateInputs ==
    /\ DegenerateHandled
    /\ (pc = "written" /\ text = <<>>) =>
          /\ Len(events) = 1
          /\ events[1].start_time = FZero
          /\ events[1].end_time = duration

\* C11 as the code has it: the same, the empty caption's one page being
\* [0, duration] for a duration >= 0 and, its start clamped to its end,
\* [duration, duration] for a negative duration.
C11_DegenerateFallbacks ==
    /\ DegenerateHandled
    /\ (pc = "written" /\ text = <<>>) =>
          /\ Len(events) = 1
          /\ events[1].end_time = duration
          /\ events[1].end_str = format_time(duration)
          /\ events[1].page_text = <<>>
          /\ IF duration_ms >= 0
             THEN events[1].start_time = FZero /\ events[1].start_str = <<0, 0, 0, 0>>
             ELSE events[1].start_time = duration /\ events[1].start_str = events[1].end_str

\* a caption of line breaks only, two pages and no character, written over
\* a negative duration
C11_Witness ==
    /\ pc = "written"
    /\ duration_ms < 0
    /\ Len(pages) = 2
    /\ SumPages(pages) = 0
    /\ Len(events) = 2

----------------------------------------------------------------------------
(* Claims about main (SpecMain)                                             *)

\* C10: every slide is rendered with min(duration_target, audio_duration)
\* when the audio duration is measured and with duration_target when it is
\* not, as render length, as motion length and as caption length alike; a
\* failed measurement never ends the batch.
C10_RenderedDuration ==
    /\ \A n \in 1..Len(slides) :
          LET s    == slides[n]
              want == IF s.probed = <<>> THEN s.target
                      ELSE IF FLt(FDivInt(s.probed[1], 1000), s.target)
                           THEN FDivInt(s.probed[1], 1000) ELSE s.target
          IN  s.render = want /\ s.motion = want /\ s.caption = want
    /\ error # "AudioReadError"

\* C10 holds of make_video_ffmpeg.py
C10_FfmpegRenderedDuration == variant = "ffmpeg" => C10_RenderedDuration

\* some two of the four lists differ in length
ListsDiffer == \E a, b \in 1..4 : list_lens[a] # list_lens[b]

\* C12: when the four lists do not all have the same length main fails
\* with the validation error and nothing else happens: no temporary
\* directory, no download, no slide rendered, no output; when they have,
\* the validation error is never raised.
C12_ValidationFirst ==
    /\ ListsDiffer =>
          /\ pc \in {"validate", "failed"}
          /\ pc = "failed" => error = "ValueError"
          /\ temp_dir = "none"
          /\ temp_files = {} /\ cwd_files = {}
          /\ idx = 0 /\ slides = <<>> /\ segment_files = <<>>
    /\ ~ListsDiffer => error # "ValueError"

\* main has failed on a manifest whose image list alone is short
C12_Witness ==
    /\ pc = "failed"
    /\ error = "ValueError"
    /\ list_lens[1] = list_lens[2] /\ list_lens[2] = list_lens[3]
    /\ list_lens[4] < list_lens[1]

\* the slide main failed on, for a failure inside the loop
FailedInLoop == error \in {"ResourceFetchError", "RenderInvocationError", "AudioReadError"}

\* C13: when main has returned or raised, every file the batch wrote but
\* the final output is gone; and a failure on a slide ends the batch there:
\* no later slide is processed and nothing is concatenated.
C13_CleanupOnExit ==
    /\ pc \in {"done", "failed"} =>
          /\ temp_files = {}
          /\ cwd_files \subseteq {"output.mp4"}
          /\ temp_dir \in {"none", "removed"}
    /\ (pc = "failed" /\ FailedInLoop) =>
          /\ Len(segment_files) = idx
          /\ Len(slides) <= idx + 1
          /\ cwd_files = {}

\* C13 holds of the temporary directory, and of the files of make_video.py
C13_TempDirCleanup ==
    pc \in {"done", "failed"} =>
        /\ temp_files = {}
        /\ temp_dir \in {"none", "removed"}
        /\ variant = "moviepy" => cwd_files \subseteq {"output.mp4"}

Init == InitMain
Next == NextMain
Spec == SpecMain
====
